---- MODULE Spec2Model ----
(***************************************************************************)
(* Model of the deep-research data contract: the relational schema of      *)
(* infra/supabase/migrations/001_initial_schema.sql (four tables, their    *)
(* NOT NULL, CHECK, PRIMARY KEY and FOREIGN KEY constraints), the shared   *)
(* request / response / event types of packages/shared, and the            *)
(* create_research handler and validation rules given in the package       *)
(* README.                                                                 *)
(*                                                                         *)
(* Conventions.  An SQL value is <<>> (NULL) or <<v>>.  A row is a record  *)
(* with one field per column.  A statement is a record holding only the    *)
(* columns it names; a column it does not name takes the column DEFAULT.   *)
(* A TEXT query is represented by its number of characters, a FLOAT by     *)
(* its value in hundredths, a TIMESTAMPTZ by a number of seconds.  A JSON  *)
(* object is a record over the keys the repository uses, a missing key     *)
(* being <<>>.                                                             *)
(***************************************************************************)
EXTENDS Integers, Sequences, FiniteSets, TLC

\* Bounds of the model.
MaxTaskId == 2
MaxRowId == 1
MaxUuid == 2

VARIABLES research_tasks, research_findings, inferences, eval_results,
          sqlstate, cascaded, now, last, response, stream

\* sqlstate is the SQLSTATE of the last statement, cascaded the number of
\* dependent rows its ON DELETE CASCADE removed, now the server clock, and
\* last the last statement or request where a specification records it,
\* response the last answer of create_research, stream the events emitted.
db == <<research_tasks, research_findings, inferences, eval_results,
        sqlstate, cascaded, now>>

vars == <<db, last, response, stream>>

TaskIds == 1..MaxTaskId
RowIds == 1..MaxRowId
Uuids == 1..MaxUuid

(***************************************************************************)
(* SQL values                                                              *)
(***************************************************************************)
Null == << >>
Some(v) == <<v>>
IsNull(x) == x = Null
Val(x) == x[1]

\* SQLSTATE of the last statement.
Ok == "00000"
NotNullViolation == "23502"
ForeignKeyViolation == "23503"
UniqueViolation == "23505"
CheckViolation == "23514"

\* The row an INSERT builds: the statement's columns, the DEFAULT elsewhere.
InsertedRow(stmt, dflt) ==
    [c \in DOMAIN dflt |-> IF c \in DOMAIN stmt THEN stmt[c] ELSE dflt[c]]

\* The table after an INSERT of row that ended with SQLSTATE st: a failed
\* statement changes nothing.
Stored(tbl, row, st) == IF st = Ok THEN tbl \cup {row} ELSE tbl

\* The table after an UPDATE of row old into new that ended with SQLSTATE st.
Replaced(tbl, old, new, st) ==
    IF st = Ok THEN (tbl \ {old}) \cup {new} ELSE tbl

\* The row an UPDATE ... SET builds from an existing row.
UpdatedRow(old, set) ==
    [c \in DOMAIN old |-> IF c \in DOMAIN set THEN set[c] ELSE old[c]]

(***************************************************************************)
(* Shared types (packages/shared/typescript/src/research.ts, types.sql)    *)
(***************************************************************************)
TaskStatus == {"pending", "running", "completed", "failed"}

task_status == {"pending", "running", "completed", "failed"}

\* JSON objects of the JSONB columns.
EmptyConfig ==
    [max_iterations |-> Null, depth |-> Null, sources |-> Null]

EmptyMetadata == [seed |-> Null]

EmptyResult ==
    [summary |-> Null, key_findings |-> Null, inferences |-> Null,
     reasoning_trace |-> Null, citations |-> Null, confidence_score |-> Null]

(***************************************************************************)
(* research_tasks                                                          *)
(***************************************************************************)
\* Column defaults; uuid is the value gen_random_uuid() returns.
research_tasks_default_bug(uuid, clock) ==
    [id |-> Some(uuid), query |-> Null, config |-> Some(EmptyConfig),
     status |-> Some("running"), result |-> Null, reasoning_trace |-> Null,
     error |-> Null, created_at |-> Some(clock), started_at |-> Null,
     completed_at |-> Null, metadata |-> Some(EmptyMetadata)]

research_tasks_default(uuid, clock) ==
    [id |-> Some(uuid), query |-> Null, config |-> Some(EmptyConfig),
     status |-> Some("pending"), result |-> Null, reasoning_trace |-> Null,
     error |-> Null, created_at |-> Some(clock), started_at |-> Null,
     completed_at |-> Null, metadata |-> Some(EmptyMetadata)]

research_tasks_not_null == {"id", "query", "status"}

\* CHECK (status IN (...)); a CHECK passes on NULL.
chk_task_status_bug(row) ==
    \/ IsNull(row.status)
    \/ Val(row.status) \in {"pending", "running", "completed", "failed", "cancelled"}

chk_task_status(row) ==
    \/ IsNull(row.status)
    \/ Val(row.status) \in {"pending", "running", "completed", "failed"}

\* Constraints of one research_tasks row, in the order the server checks them.
TaskRowState(row) ==
    IF \E c \in research_tasks_not_null : IsNull(row[c]) THEN NotNullViolation
    ELSE IF ~chk_task_status(row) THEN CheckViolation
    ELSE Ok

TaskWithId(tbl, id) == {r \in tbl : r.id = Some(id)}

\* Rows of a dependent table that reference the task.
Referencing(tbl, id) == {r \in tbl : r.task_id = Some(id)}

Referenced(id) ==
    \/ Referencing(research_findings, id) # {}
    \/ Referencing(inferences, id) # {}
    \/ Referencing(eval_results, id) # {}

\* SQLSTATE of INSERT INTO research_tasks of the row.
TaskInsertState(tbl, row) ==
    IF TaskRowState(row) # Ok THEN TaskRowState(row)
    ELSE IF \E r \in tbl : r.id = row.id THEN UniqueViolation
    ELSE Ok

\* INSERT INTO research_tasks (<columns of stmt>) VALUES (...)
InsertTask(stmt, uuid) ==
    LET row == InsertedRow(stmt, research_tasks_default(uuid, now))
        st  == TaskInsertState(research_tasks, row)
    IN /\ "id" \in DOMAIN stmt \/ TaskWithId(research_tasks, uuid) = {}
       /\ sqlstate' = st
       /\ cascaded' = 0
       /\ research_tasks' = Stored(research_tasks, row, st)
       /\ UNCHANGED <<research_findings, inferences, eval_results, now>>

\* SQLSTATE of UPDATE research_tasks SET <set> applied to row old.  A
\* foreign key without ON UPDATE is NO ACTION: a referenced id cannot change.
TaskUpdateState(tbl, old, new) ==
    IF TaskRowState(new) # Ok THEN TaskRowState(new)
    ELSE IF new.id # old.id /\ \E r \in tbl : r.id = new.id THEN UniqueViolation
    ELSE IF new.id # old.id /\ Referenced(Val(old.id)) THEN ForeignKeyViolation
    ELSE Ok

\* UPDATE research_tasks SET <columns of set> WHERE id = <id>
UpdateTask(id, set) ==
    LET hit == TaskWithId(research_tasks, id) IN
    IF hit = {}
    THEN /\ sqlstate' = Ok
         /\ cascaded' = 0
         /\ UNCHANGED <<research_tasks, research_findings, inferences,
                        eval_results, now>>
    ELSE LET old == CHOOSE r \in hit : TRUE
             new == UpdatedRow(old, set)
             st  == TaskUpdateState(research_tasks, old, new)
         IN /\ sqlstate' = st
            /\ cascaded' = 0
            /\ research_tasks' = Replaced(research_tasks, old, new, st)
            /\ UNCHANGED <<research_findings, inferences, eval_results, now>>

\* ON DELETE CASCADE of a dependent table: the rows left once the tasks
\* with the given ids are deleted.
OnDeleteNoAction(tbl, ids) == tbl

OnDeleteCascade(tbl, ids) ==
    {r \in tbl : IsNull(r.task_id) \/ Val(r.task_id) \notin ids}

\* DELETE FROM research_tasks WHERE id IN <ids>
DeleteTasks(ids) ==
    /\ research_tasks' = {r \in research_tasks : Val(r.id) \notin ids}
    /\ research_findings' = OnDeleteCascade(research_findings, ids)
    /\ inferences' = OnDeleteCascade(inferences, ids)
    /\ eval_results' = OnDeleteCascade(eval_results, ids)
    /\ sqlstate' = Ok
    /\ cascaded' = Cardinality(research_findings \ research_findings')
                   + Cardinality(inferences \ inferences')
                   + Cardinality(eval_results \ eval_results')
    /\ UNCHANGED now

DeleteTask(id) == DeleteTasks({id})

(***************************************************************************)
(* research_findings, inferences, eval_results                             *)
(***************************************************************************)
\* REFERENCES research_tasks(id): the referenced task exists.
fk_task_id(tasks, row) ==
    IsNull(row.task_id) \/ TaskWithId(tasks, Val(row.task_id)) # {}

\* Constraints of a row written to a dependent table, in the order the
\* server checks them: NOT NULL, CHECK, the primary key, the foreign key.
ChildRowState(tasks, others, row, not_null, check_ok) ==
    IF \E c \in not_null : IsNull(row[c]) THEN NotNullViolation
    ELSE IF ~check_ok THEN CheckViolation
    ELSE IF \E r \in others : r.id = row.id THEN UniqueViolation
    ELSE IF ~fk_task_id(tasks, row) THEN ForeignKeyViolation
    ELSE Ok

RowWithId(tbl, id) == {r \in tbl : r.id = Some(id)}

research_findings_default(uuid, clock) ==
    [id |-> Some(uuid), task_id |-> Null, sub_query |-> Null,
     response |-> Null, citations |-> Some(<< >>), confidence |-> Null,
     created_at |-> Some(clock)]

research_findings_not_null == {"id", "task_id", "sub_query", "response"}

\* CHECK (confidence IS NULL OR (confidence >= 0.0 AND confidence <= 1.0))
chk_confidence_range_bug(row) ==
    IsNull(row.confidence) \/ Val(row.confidence) >= 0

chk_confidence_range(row) ==
    IsNull(row.confidence)
        \/ (Val(row.confidence) >= 0 /\ Val(row.confidence) <= 100)

FindingRowStateIn(tasks, others, row) ==
    ChildRowState(tasks, others, row, research_findings_not_null,
                  chk_confidence_range(row))

FindingRowState(others, row) == FindingRowStateIn(research_tasks, others, row)

\* INSERT INTO research_findings (<columns of stmt>) VALUES (...)
InsertFinding(stmt, uuid) ==
    LET row == InsertedRow(stmt, research_findings_default(uuid, now))
        st  == FindingRowState(research_findings, row)
    IN /\ "id" \in DOMAIN stmt \/ RowWithId(research_findings, uuid) = {}
       /\ sqlstate' = st
       /\ cascaded' = 0
       /\ research_findings' = Stored(research_findings, row, st)
       /\ UNCHANGED <<research_tasks, inferences, eval_results, now>>

\* UPDATE research_findings SET <columns of set> WHERE id = <id>
UpdateFinding(id, set) ==
    LET hit == RowWithId(research_findings, id) IN
    IF hit = {}
    THEN /\ sqlstate' = Ok
         /\ cascaded' = 0
         /\ UNCHANGED <<research_tasks, research_findings, inferences,
                        eval_results, now>>
    ELSE LET old == CHOOSE r \in hit : TRUE
             new == UpdatedRow(old, set)
             st  == FindingRowState(research_findings \ {old}, new)
         IN /\ sqlstate' = st
            /\ cascaded' = 0
            /\ research_findings' = Replaced(research_findings, old, new, st)
            /\ UNCHANGED <<research_tasks, inferences, eval_results, now>>

\* DELETE FROM research_findings WHERE id = <id>
DeleteFinding(id) ==
    /\ research_findings' = research_findings \ RowWithId(research_findings, id)
    /\ sqlstate' = Ok
    /\ cascaded' = 0
    /\ UNCHANGED <<research_tasks, inferences, eval_results, now>>

inferences_default(uuid, clock) ==
    [id |-> Some(uuid), task_id |-> Null, claim |-> Null,
     supporting_citations |-> Some(<< >>), degrees_of_separation |-> Null,
     reasoning |-> Null, created_at |-> Some(clock)]

inferences_not_null ==
    {"id", "task_id", "claim", "degrees_of_separation", "reasoning"}

\* CHECK (degrees_of_separation >= 0)
chk_degrees_non_negative(row) ==
    IsNull(row.degrees_of_separation) \/ Val(row.degrees_of_separation) >= 0

InferenceRowStateIn(tasks, others, row) ==
    ChildRowState(tasks, others, row, inferences_not_null,
                  chk_degrees_non_negative(row))

InferenceRowState(others, row) ==
    InferenceRowStateIn(research_tasks, others, row)

\* INSERT INTO inferences (<columns of stmt>) VALUES (...)
InsertInference(stmt, uuid) ==
    LET row == InsertedRow(stmt, inferences_default(uuid, now))
        st  == InferenceRowState(inferences, row)
    IN /\ "id" \in DOMAIN stmt \/ RowWithId(inferences, uuid) = {}
       /\ sqlstate' = st
       /\ cascaded' = 0
       /\ inferences' = Stored(inferences, row, st)
       /\ UNCHANGED <<research_tasks, research_findings, eval_results, now>>

\* UPDATE inferences SET <columns of set> WHERE id = <id>
UpdateInference(id, set) ==
    LET hit == RowWithId(inferences, id) IN
    IF hit = {}
    THEN /\ sqlstate' = Ok
         /\ cascaded' = 0
         /\ UNCHANGED <<research_tasks, research_findings, inferences,
                        eval_results, now>>
    ELSE LET old == CHOOSE r \in hit : TRUE
             new == UpdatedRow(old, set)
             st  == InferenceRowState(inferences \ {old}, new)
         IN /\ sqlstate' = st
            /\ cascaded' = 0
            /\ inferences' = Replaced(inferences, old, new, st)
            /\ UNCHANGED <<research_tasks, research_findings, eval_results, now>>

\* DELETE FROM inferences WHERE id = <id>
DeleteInference(id) ==
    /\ inferences' = inferences \ RowWithId(inferences, id)
    /\ sqlstate' = Ok
    /\ cascaded' = 0
    /\ UNCHANGED <<research_tasks, research_findings, eval_results, now>>

eval_results_default(uuid, clock) ==
    [id |-> Some(uuid), task_id |-> Null, eval_type |-> Null,
     score |-> Null, details |-> Null, created_at |-> Some(clock)]

eval_results_not_null == {"id", "task_id", "eval_type"}

\* CHECK (score IS NULL OR (score >= 0.0 AND score <= 1.0))
chk_score_range(row) ==
    IsNull(row.score) \/ (Val(row.score) >= 0 /\ Val(row.score) <= 100)

EvalRowStateIn(tasks, others, row) ==
    ChildRowState(tasks, others, row, eval_results_not_null,
                  chk_score_range(row))

EvalRowState(others, row) == EvalRowStateIn(research_tasks, others, row)

\* INSERT INTO eval_results (<columns of stmt>) VALUES (...)
InsertEval(stmt, uuid) ==
    LET row == InsertedRow(stmt, eval_results_default(uuid, now))
        st  == EvalRowState(eval_results, row)
    IN /\ "id" \in DOMAIN stmt \/ RowWithId(eval_results, uuid) = {}
       /\ sqlstate' = st
       /\ cascaded' = 0
       /\ eval_results' = Stored(eval_results, row, st)
       /\ UNCHANGED <<research_tasks, research_findings, inferences, now>>

\* UPDATE eval_results SET <columns of set> WHERE id = <id>
UpdateEval(id, set) ==
    LET hit == RowWithId(eval_results, id) IN
    IF hit = {}
    THEN /\ sqlstate' = Ok
         /\ cascaded' = 0
         /\ UNCHANGED <<research_tasks, research_findings, inferences,
                        eval_results, now>>
    ELSE LET old == CHOOSE r \in hit : TRUE
             new == UpdatedRow(old, set)
             st  == EvalRowState(eval_results \ {old}, new)
         IN /\ sqlstate' = st
            /\ cascaded' = 0
            /\ eval_results' = Replaced(eval_results, old, new, st)
            /\ UNCHANGED <<research_tasks, research_findings, inferences, now>>

\* DELETE FROM eval_results WHERE id = <id>
DeleteEval(id) ==
    /\ eval_results' = eval_results \ RowWithId(eval_results, id)
    /\ sqlstate' = Ok
    /\ cascaded' = 0
    /\ UNCHANGED <<research_tasks, research_findings, inferences, now>>

(***************************************************************************)
(* Specification of the schema: statements on the four tables              *)
(***************************************************************************)
None == [kind |-> "none"]

Init ==
    /\ research_tasks = {}
    /\ research_findings = {}
    /\ inferences = {}
    /\ eval_results = {}
    /\ sqlstate = Ok
    /\ cascaded = 0
    /\ now = 0
    /\ last = None
    /\ response = None
    /\ stream = << >>

\* Statements of the specification.
FindingStmt(t) ==
    [task_id |-> Some(t), sub_query |-> Some("q"), response |-> Some("r")]

InferenceStmt(t, d) ==
    [task_id |-> Some(t), claim |-> Some("c"),
     degrees_of_separation |-> Some(d), reasoning |-> Some("why")]

EvalStmt(t) == [task_id |-> Some(t), eval_type |-> Some("hallucination")]

TaskStmt == [query |-> Some(1)]

\* The schema's statements leave the API and the event stream alone.
Frame == UNCHANGED <<last, response, stream>>

Next ==
    \/ Frame /\ \E uuid \in TaskIds : InsertTask(TaskStmt, uuid)
    \/ Frame /\ \E id, new \in TaskIds : UpdateTask(id, [id |-> Some(new)])
    \/ Frame /\ \E id \in TaskIds : DeleteTask(id)
    \/ Frame /\ \E t \in TaskIds, uuid \in RowIds :
                    InsertFinding(FindingStmt(t), uuid)
    \/ Frame /\ \E id \in RowIds, t \in TaskIds :
                    UpdateFinding(id, [task_id |-> Some(t)])
    \/ Frame /\ \E id \in RowIds : DeleteFinding(id)
    \/ Frame /\ \E t \in TaskIds, uuid \in RowIds :
                    InsertInference(InferenceStmt(t, 1), uuid)
    \/ Frame /\ \E id \in RowIds, t \in TaskIds :
                    UpdateInference(id, [task_id |-> Some(t)])
    \/ Frame /\ \E id \in RowIds : DeleteInference(id)
    \/ Frame /\ \E t \in TaskIds, uuid \in RowIds : InsertEval(EvalStmt(t), uuid)
    \/ Frame /\ \E id \in RowIds, t \in TaskIds :
                    UpdateEval(id, [task_id |-> Some(t)])
    \/ Frame /\ \E id \in RowIds : DeleteEval(id)

Spec == Init /\ [][Next]_vars

(***************************************************************************)
(* C2: referential integrity of the dependent tables                       *)
(***************************************************************************)
Dependents == research_findings \cup inferences \cup eval_results

\* The dependent rows an INSERT naming task t would write.
FindingRows(t) ==
    {InsertedRow(FindingStmt(t), research_findings_default(u, now)) : u \in RowIds}

InferenceRows(t) ==
    {InsertedRow(InferenceStmt(t, 1), inferences_default(u, now)) : u \in RowIds}

EvalRows(t) ==
    {InsertedRow(EvalStmt(t), eval_results_default(u, now)) : u \in RowIds}

\* C2: no finding, inference or eval result refers to a task that does not
\* exist (deleting a task deletes its dependent rows), and an insert of a
\* dependent row naming a task id that matches no task is rejected and
\* stores nothing.
C2_NoOrphanRows ==
    /\ \A r \in Dependents :
           /\ ~IsNull(r.task_id)
           /\ TaskWithId(research_tasks, Val(r.task_id)) # {}
    /\ \A t \in TaskIds :
           TaskWithId(research_tasks, t) = {} =>
               /\ \A row \in FindingRows(t) :
                      LET st == FindingRowState(research_findings, row) IN
                      st # Ok /\ Stored(research_findings, row, st) = research_findings
               /\ \A row \in InferenceRows(t) :
                      LET st == InferenceRowState(inferences, row) IN
                      st # Ok /\ Stored(inferences, row, st) = inferences
               /\ \A row \in EvalRows(t) :
                      LET st == EvalRowState(eval_results, row) IN
                      st # Ok /\ Stored(eval_results, row, st) = eval_results

\* A delete of a task has just removed dependent rows of at least two tables'
\* worth, and another task still has its own.
C2_Witness ==
    /\ cascaded >= 2
    /\ research_tasks # {}
    /\ Dependents # {}

(***************************************************************************)
(* Specification of the inferences table                                   *)
(***************************************************************************)
Degrees == {-1, 0, 1, 2}

NextInferences ==
    \/ Frame /\ \E uuid \in TaskIds : InsertTask(TaskStmt, uuid)
    \/ Frame /\ \E id \in TaskIds : DeleteTask(id)
    \/ Frame /\ \E t \in TaskIds, d \in Degrees, uuid \in Uuids :
                    InsertInference(InferenceStmt(t, d), uuid)
    \/ Frame /\ \E id \in Uuids, d \in Degrees :
                    UpdateInference(id, [degrees_of_separation |-> Some(d)])
    \/ Frame /\ \E id \in Uuids : DeleteInference(id)

SpecInferences == Init /\ [][NextInferences]_vars

\* C5: every stored inference has degrees_of_separation >= 1.
C5_DegreesAtLeastOne ==
    \A r \in inferences : Val(r.degrees_of_separation) >= 1

(***************************************************************************)
(* Specification of the scored tables                                      *)
(***************************************************************************)
\* Hundredths: -0.01, 0.0, 1.0, 1.01, and NULL.
Scores == {Some(-1), Some(0), Some(100), Some(101), Null}

NextScores ==
    \/ Frame /\ \E uuid \in TaskIds : InsertTask(TaskStmt, uuid)
    \/ Frame /\ \E id \in TaskIds : DeleteTask(id)
    \/ Frame /\ \E t \in TaskIds, c \in Scores, uuid \in RowIds :
           InsertFinding([confidence |-> c] @@ FindingStmt(t), uuid)
    \/ Frame /\ \E id \in RowIds, c \in Scores :
           UpdateFinding(id, [confidence |-> c])
    \/ Frame /\ \E id \in RowIds : DeleteFinding(id)
    \/ Frame /\ \E t \in TaskIds, c \in Scores, uuid \in RowIds :
           InsertEval([score |-> c] @@ EvalStmt(t), uuid)
    \/ Frame /\ \E id \in RowIds, c \in Scores : UpdateEval(id, [score |-> c])
    \/ Frame /\ \E id \in RowIds : DeleteEval(id)

SpecScores == Init /\ [][NextScores]_vars

InUnitRange(x) == IsNull(x) \/ (Val(x) >= 0 /\ Val(x) <= 100)

\* C8: every stored confidence and score is NULL or within [0.0, 1.0], and an
\* insert or update carrying a value outside that range of either column is
\* rejected and leaves its table unchanged.
C8_ScoresInUnitRange ==
    /\ \A r \in research_findings : InUnitRange(r.confidence)
    /\ \A r \in eval_results : InUnitRange(r.score)
    /\ \A c \in Scores : ~InUnitRange(c) =>
         /\ \A t \in TaskIds, u \in RowIds :
              LET row == InsertedRow([confidence |-> c] @@ FindingStmt(t),
                                     research_findings_default(u, now))
                  st == FindingRowState(research_findings, row)
              IN st # Ok /\ Stored(research_findings, row, st) = research_findings
         /\ \A old \in research_findings :
              LET new == UpdatedRow(old, [confidence |-> c])
                  st == FindingRowState(research_findings \ {old}, new)
              IN st # Ok /\ Replaced(research_findings, old, new, st) = research_findings
         /\ \A t \in TaskIds, u \in RowIds :
              LET row == InsertedRow([score |-> c] @@ EvalStmt(t),
                                     eval_results_default(u, now))
                  st == EvalRowState(eval_results, row)
              IN st # Ok /\ Stored(eval_results, row, st) = eval_results
         /\ \A old \in eval_results :
              LET new == UpdatedRow(old, [score |-> c])
                  st == EvalRowState(eval_results \ {old}, new)
              IN st # Ok /\ Replaced(eval_results, old, new, st) = eval_results

\* A statement was just rejected by a range check while a finding holds the
\* upper limit and an eval result the lower one.
C8_Witness ==
    /\ sqlstate = CheckViolation
    /\ \E r \in research_findings : r.confidence = Some(100)
    /\ \E r \in eval_results : r.score = Some(0)

(***************************************************************************)
(* Specification of the research_tasks table                               *)
(***************************************************************************)
\* A result as the ResearchResult type declares it.
SampleResult ==
    [summary |-> Some("s"), key_findings |-> Some(<<"k">>),
     inferences |-> Some(<< >>), reasoning_trace |-> Some(<< >>),
     citations |-> Some(<< >>), confidence_score |-> Some(90)]

\* Status values a statement may carry: the four of the type, two that are
\* not, and NULL.
StatusInputs ==
    {Some(s) : s \in TaskStatus} \cup {Some("cancelled"), Some("PENDING"), Null}

NextTasks ==
    \/ Frame /\ \E uuid \in TaskIds : InsertTask(TaskStmt, uuid)
    \/ Frame /\ \E uuid \in TaskIds, st \in StatusInputs :
           InsertTask([status |-> st] @@ TaskStmt, uuid)
    \/ Frame /\ \E uuid \in TaskIds : InsertTask([status |-> Some("running")], uuid)
    \/ Frame /\ \E id \in TaskIds, st \in StatusInputs :
           UpdateTask(id, [status |-> st])
    \/ Frame /\ \E id \in TaskIds :
           UpdateTask(id, [status |-> Some("completed"),
                           result |-> Some(SampleResult),
                           completed_at |-> Some(now)])
    \/ Frame /\ \E id \in TaskIds :
           UpdateTask(id, [status |-> Some("failed"), error |-> Some("boom"),
                           completed_at |-> Some(now)])
    \/ Frame /\ \E id \in TaskIds : DeleteTask(id)

SpecTasks == Init /\ [][NextTasks]_vars

\* The lifecycle of the spec: pending -> running -> (completed | failed).
Forward ==
    {<<"pending", "running">>, <<"running", "completed">>,
     <<"running", "failed">>}

\* C1: the status of a task only moves forward along pending -> running ->
\* (completed | failed): no statement moves a task back, skips running, or
\* changes a completed or failed task's status.
C1_StatusOnlyMovesForward ==
    [][\A old \in research_tasks : \A new \in research_tasks' :
           (old.id = new.id /\ old.status # new.status) =>
               <<Val(old.status), Val(new.status)>> \in Forward]_vars

\* The rows an INSERT carrying status st would write.
TaskRowsWithStatus(st) ==
    {InsertedRow([status |-> st] @@ TaskStmt, research_tasks_default(u, now)) :
         u \in TaskIds}

\* C3: every stored status is one of pending, running, completed, failed; an
\* insert or update that sets another value is rejected and leaves the table
\* unchanged; and the TypeScript TaskStatus type and the task_status enum
\* declare the same four values.
C3_StatusInEnum ==
    /\ \A r \in research_tasks :
           Val(r.status) \in {"pending", "running", "completed", "failed"}
    /\ TaskStatus = {"pending", "running", "completed", "failed"}
    /\ task_status = TaskStatus
    /\ \A st \in StatusInputs :
           (IsNull(st) \/ Val(st) \notin TaskStatus) =>
               /\ \A row \in TaskRowsWithStatus(st) :
                      LET code == TaskInsertState(research_tasks, row) IN
                      /\ code # Ok
                      /\ Stored(research_tasks, row, code) = research_tasks
               /\ \A old \in research_tasks :
                      LET new == UpdatedRow(old, [status |-> st])
                          code == TaskUpdateState(research_tasks, old, new)
                      IN /\ code # Ok
                         /\ Replaced(research_tasks, old, new, code) = research_tasks

\* A statement carrying a status outside the enum was just rejected while
\* the table holds tasks in two different states.
C3_Witness ==
    /\ sqlstate = CheckViolation
    /\ \E r \in research_tasks : r.status = Some("completed")
    /\ \E r \in research_tasks : r.status = Some("pending")

(***************************************************************************)
(* The create-research API (packages/shared README, api.ts, research.ts)   *)
(***************************************************************************)
\* Validation rules of the request model. The backend's request model
\* (Pydantic) is not among the sources; the README states its rules, and the
\* handler below declares its parameter of that type, so a request that
\* breaks a rule is answered before the handler runs.
QueryMinLength == 1
QueryMaxLength == 2000
MaxIterationsMin == 1
MaxIterationsMax == 20

\* CreateResearchRequest: query, optional webhook_url, optional
\* max_iterations; an optional field left out is <<>>.
ValidRequest(req) ==
    /\ req.query >= QueryMinLength
    /\ req.query <= QueryMaxLength
    /\ \/ IsNull(req.max_iterations)
       \/ /\ Val(req.max_iterations) >= MaxIterationsMin
          /\ Val(req.max_iterations) <= MaxIterationsMax

\* ResearchTask as constructed from the fields given: the fields not
\* passed take the model's defaults.
NewResearchTask(id, query, status, clock) ==
    [id |-> id, query |-> query, status |-> status, result |-> Null,
     error_message |-> Null, created_at |-> clock, started_at |-> Null,
     completed_at |-> Null]

\* The handler's task built without the request's query.
HandlerTask_bug(req, uuid, clock) == NewResearchTask(uuid, 0, "pending", clock)

\* task = ResearchTask(id=str(uuid4()), query=request.query,
\*                     status=TaskStatus.PENDING)
HandlerTask(req, uuid, clock) ==
    NewResearchTask(uuid, req.query, "pending", clock)

\* CreateResearchResponse
CreateResearchResponse(task) ==
    [task_id |-> task.id, status |-> task.status, created_at |-> task.created_at]

\* The handler of POST /research: it builds the task in status pending and
\* answers with its id, status and creation time. What it does with the
\* task in between ("# ... process task") is not given: it stores the task
\* as a research_tasks row, or it stores nothing. `last` records the
\* request and the rows it added.
create_research(req, uuid) ==
    LET task == HandlerTask(req, uuid, now) IN
    /\ response' = [kind |-> "created", task |-> task,
                    body |-> CreateResearchResponse(task)]
    /\ \/ UNCHANGED db
       \/ InsertTask([id |-> Some(task.id), query |-> Some(task.query),
                      status |-> Some(task.status),
                      created_at |-> Some(task.created_at)], uuid)
    /\ last' = [kind |-> "request", request |-> req,
                stored |-> research_tasks' \ research_tasks]
    /\ UNCHANGED stream

\* POST /research as the server routes it: a request that fails the
\* validation of its model is answered 422 and the handler does not run;
\* otherwise the handler runs.
PostResearch(req, uuid) ==
    IF ValidRequest(req)
    THEN create_research(req, uuid)
    ELSE /\ response' = [kind |-> "rejected", status_code |-> 422]
         /\ last' = [kind |-> "request", request |-> req, stored |-> {}]
         /\ UNCHANGED <<db, stream>>

(***************************************************************************)
(* Specification of task creation: the API and INSERTs into research_tasks *)
(***************************************************************************)
QueryLengths == {0, 1, QueryMaxLength, QueryMaxLength + 1}

IterationInputs ==
    {Null, Some(0), Some(1), Some(MaxIterationsMax), Some(MaxIterationsMax + 1)}

Requests ==
    [query : QueryLengths, webhook_url : {Null}, max_iterations : IterationInputs]

\* INSERT statements that leave the status to its DEFAULT.
DefaultStatusStmts ==
    {[query |-> Some(n)] : n \in {0, 1, QueryMaxLength + 1}}
        \cup {[query |-> Some(1),
               config |-> Some([EmptyConfig EXCEPT
                                   !.max_iterations = Some(MaxIterationsMax + 1)])]}

NextCreate ==
    \/ Frame /\ \E uuid \in TaskIds, stmt \in DefaultStatusStmts :
           InsertTask(stmt, uuid)
    \/ Frame /\ \E uuid \in TaskIds :
           InsertTask([status |-> Some("running")] @@ TaskStmt, uuid)
    \/ Frame /\ \E id \in TaskIds : DeleteTask(id)
    \/ \E req \in Requests, uuid \in Uuids : PostResearch(req, uuid)

SpecCreate == Init /\ [][NextCreate]_vars

\* C4: a task is created in status pending: an INSERT into research_tasks
\* that names no status stores the row with status pending, and the
\* create-task response for a newly created task reports pending.
C4_CreatedPending ==
    /\ \A stmt \in DefaultStatusStmts, u \in TaskIds :
           LET row == InsertedRow(stmt, research_tasks_default(u, now))
               st == TaskInsertState(research_tasks, row)
           IN st = Ok =>
                  /\ row \in Stored(research_tasks, row, st)
                  /\ row.status = Some("pending")
    /\ response.kind = "created" =>
           /\ response.body.status = "pending"
           /\ response.task.status = "pending"
           /\ response.body.task_id = response.task.id

\* A request was answered with a created task while the table holds a row
\* stored with the default status.
C4_Witness ==
    /\ response.kind = "created"
    /\ sqlstate = Ok
    /\ \E r \in research_tasks : r.status = Some("pending")

\* The ranges of the claim.
InRanges(req) ==
    /\ req.query \in 1..2000
    /\ IsNull(req.max_iterations) \/ Val(req.max_iterations) \in 1..20

MaxStream == 2

EventType ==
    {"task_created", "task_started", "step_completed", "task_completed",
     "task_failed"}

\* Sample payload values.
SampleStep ==
    [step_number |-> 1, action |-> "search", input |-> "i", output |-> "o",
     rationale |-> "r"]

ReasoningSteps == {SampleStep}

ResearchResults ==
    {[summary |-> "s", key_findings |-> <<"k">>, inferences |-> << >>,
      reasoning_trace |-> <<SampleStep>>, citations |-> << >>,
      confidence_score |-> c] : c \in {0, 100}}

ErrorDetails == {Null, Some([code |-> "timeout"])}

\* BaseEvent
BaseEvent(types) == [event_type : types, task_id : TaskIds, timestamp : {now}]

\* The fields a variant adds to BaseEvent, with their values.
Extend(base, payload) == {b @@ p : b \in base, p \in payload}

TaskCreatedEvent_bug == BaseEvent({"task_created"})

TaskCreatedEvent == Extend(BaseEvent({"task_created"}), [query : {1, 2}])

TaskStartedEvent_bug ==
    Extend(BaseEvent({"task_started"}), [query : {1}])

TaskStartedEvent == BaseEvent({"task_started"})

StepCompletedEvent ==
    Extend(BaseEvent({"step_completed"}), [step : ReasoningSteps])

TaskCompletedEvent ==
    Extend(BaseEvent({"task_completed"}), [result : ResearchResults])

TaskFailedEvent ==
    Extend(BaseEvent({"task_failed"}),
           [error : {"boom"}, error_details : ErrorDetails])

StreamEvent ==
    TaskCreatedEvent \cup TaskStartedEvent \cup StepCompletedEvent
        \cup TaskCompletedEvent \cup TaskFailedEvent

\* An event of the union is put on the stream.
Emit(ev) ==
    /\ Len(stream) < MaxStream
    /\ stream' = Append(stream, ev)
    /\ UNCHANGED <<db, last, response>>

NextEvents ==
    \/ \E ev \in TaskCreatedEvent : Emit(ev)
    \/ \E ev \in TaskStartedEvent : Emit(ev)
    \/ \E ev \in StepCompletedEvent : Emit(ev)
    \/ \E ev \in TaskCompletedEvent : Emit(ev)
    \/ \E ev \in TaskFailedEvent : Emit(ev)

SpecEvents == Init /\ [][NextEvents]_vars

Events == {stream[i] : i \in 1..Len(stream)}

\* The payload fields the spec gives each event type.
PayloadOf(type) ==
    CASE type = "task_created" -> {"query"}
      [] type = "task_started" -> {}
      [] type = "step_completed" -> {"step"}
      [] type = "task_completed" -> {"result"}
      [] type = "task_failed" -> {"error", "error_details"}

\* C9: the fields of every event are exactly event_type, task_id and
\* timestamp plus the payload fields of its own event_type: query only on
\* task_created, step only on step_completed, result only on
\* task_completed, error and error_details only on task_failed, none on
\* task_started.
C9_FieldsMatchTag ==
    \A ev \in Events :
        /\ ev.event_type \in EventType
        /\ DOMAIN ev = {"event_type", "task_id", "timestamp"}
                           \cup PayloadOf(ev.event_type)

\* The stream holds a task_started event and an event with a payload.
C9_Witness ==
    /\ \E ev \in Events : ev.event_type = "task_started"
    /\ \E ev \in Events : ev.event_type = "task_failed"

\* C10 as stated: every event carries the three base fields and at least one
\* further field.
C10_StrictSuperset ==
    \A ev \in Events :
        /\ {"event_type", "task_id", "timestamp"} \subseteq DOMAIN ev
        /\ DOMAIN ev # {"event_type", "task_id", "timestamp"}

\* C10 as amended: every event carries the three base fields; an event of
\* type task_created, step_completed, task_completed or task_failed carries
\* at least one further field, and a task_started event carries none.
C10_SupersetOfBase ==
    \A ev \in Events :
        /\ {"event_type", "task_id", "timestamp"} \subseteq DOMAIN ev
        /\ ev.event_type # "task_started" <=>
               DOMAIN ev # {"event_type", "task_id", "timestamp"}

\* The stream holds a task_started event next to a task_created one.
C10_Witness ==
    /\ \E ev \in Events : ev.event_type = "task_started"
    /\ \E ev \in Events : ev.event_type = "task_created"

(***************************************************************************)
(* Seed script (infra/supabase seed data)                                  *)
(***************************************************************************)
MaxClock == 1

\* Ids '00000000-0000-0000-0000-00000000000n' of the seed tasks.
SeedTaskIds == {1, 2, 3, 4}

SeedMetadata == [seed |-> Some("true")]

\* Rows WHERE metadata->>'seed' = 'false'.
SeedMarked_bug(tasks) ==
    {r \in tasks : ~IsNull(r.metadata) /\ Val(r.metadata).seed = Some("false")}

\* Rows WHERE metadata->>'seed' = 'true'.
SeedMarked(tasks) ==
    {r \in tasks : ~IsNull(r.metadata) /\ Val(r.metadata).seed = Some("true")}

SeedMarkedIds(tasks) == {Val(r.id) : r \in SeedMarked(tasks)}

\* DELETE FROM <dependent table> WHERE task_id IN (<ids>)
DeleteWhereTaskIn(tbl, ids) == {r \in tbl : Val(r.task_id) \notin ids}

SeedCompletedTask(clock) ==
    [id |-> Some(1), query |-> Some(78),
     config |-> Some([max_iterations |-> Some(3), depth |-> Some("deep"),
                      sources |-> Some(<<"perplexity">>)]),
     status |-> Some("completed"),
     result |-> Some([EmptyResult EXCEPT
         !.summary = Some("Recent advances include mixture-of-experts, sparse attention, and state-space models..."),
         !.key_findings = Some(<<"MoE models achieve better scaling",
                                 "Flash attention reduces memory",
                                 "Mamba shows promise for long context">>)]),
     reasoning_trace |-> Some([steps |-> <<[step |-> 1, agent |-> "planner",
                                            output |-> "Breaking down into sub-queries..."]>>,
                               total_tokens |-> 5000]),
     created_at |-> Some(clock - 7200),
     started_at |-> Some(clock - 7200 + 5),
     completed_at |-> Some(clock - 3600),
     metadata |-> Some(SeedMetadata)]

SeedPendingTask(clock) ==
    [id |-> Some(2), query |-> Some(61),
     config |-> Some([max_iterations |-> Some(5), depth |-> Some("shallow"),
                      sources |-> Null]),
     status |-> Some("pending"),
     created_at |-> Some(clock - 1800),
     metadata |-> Some(SeedMetadata)]

\* The running task inserted without its started_at.
SeedRunningTask_bug(clock) ==
    [id |-> Some(3), query |-> Some(67),
     config |-> Some([max_iterations |-> Some(4), depth |-> Some("deep"),
                      sources |-> Some(<<"perplexity", "web">>)]),
     status |-> Some("running"),
     created_at |-> Some(clock - 600),
     metadata |-> Some(SeedMetadata)]

SeedRunningTask(clock) ==
    [id |-> Some(3), query |-> Some(67),
     config |-> Some([max_iterations |-> Some(4), depth |-> Some("deep"),
                      sources |-> Some(<<"perplexity", "web">>)]),
     status |-> Some("running"),
     created_at |-> Some(clock - 600),
     started_at |-> Some(clock - 540),
     metadata |-> Some(SeedMetadata)]

SeedFailedTask(clock) ==
    [id |-> Some(4), query |-> Some(44),
     config |-> Some(EmptyConfig),
     status |-> Some("failed"),
     error |-> Some("Access denied: Cannot access internal resources"),
     created_at |-> Some(clock - 86400),
     started_at |-> Some(clock - 86400 + 2),
     completed_at |-> Some(clock - 86400 + 10),
     metadata |-> Some(SeedMetadata)]


SeedFindings ==
    << [task_id |-> Some(1),
        sub_query |-> Some("What is mixture-of-experts architecture?"),
        response |-> Some("Mixture-of-experts (MoE) is an architecture where different \"expert\" neural networks specialize in different parts of the input space..."),
        citations |-> Some(<<[url |-> "https://arxiv.org/abs/2401.04088",
                              title |-> "Mixtral of Experts",
                              snippet |-> "We introduce Mixtral 8x7B..."]>>),
        confidence |-> Some(92)],
       [task_id |-> Some(1),
        sub_query |-> Some("How does Flash Attention improve transformer efficiency?"),
        response |-> Some("Flash Attention is an IO-aware exact attention algorithm that reduces memory usage from O(N^2) to O(N)..."),
        citations |-> Some(<<[url |-> "https://arxiv.org/abs/2205.14135",
                              title |-> "FlashAttention",
                              snippet |-> "We propose FlashAttention..."]>>),
        confidence |-> Some(95)] >>

SeedInferences ==
    << [task_id |-> Some(1),
        claim |-> Some("MoE architectures are more parameter-efficient than dense models"),
        supporting_citations |-> Some(<<[url |-> "https://arxiv.org/abs/2401.04088"]>>),
        degrees_of_separation |-> Some(1),
        reasoning |-> Some("Direct claim from the Mixtral paper abstract stating 8x7B parameters with only 12.9B active")],
       [task_id |-> Some(1),
        claim |-> Some("Combining MoE with Flash Attention could yield significant efficiency gains"),
        supporting_citations |-> Some(<<[url |-> "https://arxiv.org/abs/2401.04088"],
                                        [url |-> "https://arxiv.org/abs/2205.14135"]>>),
        degrees_of_separation |-> Some(2),
        reasoning |-> Some("Inference: MoE reduces active parameters, Flash Attention reduces memory. Combining both could multiply benefits.")] >>

SeedEvals ==
    << [task_id |-> Some(1), eval_type |-> Some("reasoning_quality"),
        score |-> Some(85),
        details |-> Some([strengths |-> <<"Clear logical chain", "Good source usage">>,
                          weaknesses |-> <<"Could explore more alternatives">>])],
       [task_id |-> Some(1), eval_type |-> Some("citation_accuracy"),
        score |-> Some(95),
        details |-> Some([verified_citations |-> 2, total_citations |-> 2,
                          issues |-> << >>])] >>

\* Rows of research_tasks that carry metadata seed = 'true', and their ids.
SeedRows(tasks) == {r \in tasks : r.metadata = Some(SeedMetadata)}
SeedRowIds(tasks) == {Val(r.id) : r \in SeedRows(tasks)}

\* Every row with a seed task id carries metadata seed = 'true'.
SeedPrecondition ==
    \A r \in research_tasks :
        Val(r.id) \in SeedTaskIds => r \in SeedRows(research_tasks)

\* The ids gen_random_uuid() returns to a two-row INSERT of the script: two
\* different ids the table does not hold; there always are such ids. The
\* ids are opaque (nothing compares them but for equality), so they are
\* taken up to renaming: the two smallest ids the table does not hold, the
\* first row receiving the smaller one.
FreshIds(tbl) ==
    LET held == {Val(r.id) : r \in tbl}
        pool == 1..(Cardinality(tbl) + 2)
    IN {x \in pool \ held : Cardinality((1..x) \ held) <= 2}

FreshPairs(tbl) ==
    {p \in FreshIds(tbl) \X FreshIds(tbl) : p[1] < p[2]}

\* The script is run at most MaxRuns times.
MaxRuns == 2

\* The statements of the script: four DELETEs, four task INSERTs, three
\* two-row INSERTs and the SELECT of the counts.
SeedStatements == 12

\* The script is not wrapped in a transaction: each statement commits on
\* its own and reads NOW() itself, so the clock may advance between two
\* of them. `last` holds the session of the script: the SQLSTATE of each
\* statement executed so far, whether the run started where every row with
\* a seed id was marked as seed, how many runs have started, and the counts
\* its last statement reports.
RunsSoFar == IF last.kind = "seed" THEN last.run ELSE 0

SeedAt(k) ==
    IF k = 0
    THEN IF last.kind = "seed" THEN Len(last.sqlstates) = SeedStatements
         ELSE TRUE
    ELSE IF last.kind = "seed" THEN Len(last.sqlstates) = k ELSE FALSE

NoCounts ==
    [research_tasks |-> 0, research_findings |-> 0, inferences |-> 0,
     eval_results |-> 0]

SeedLog(k) ==
    /\ last' = IF k = 0
               THEN [kind |-> "seed", sqlstates |-> <<sqlstate'>>,
                     pre |-> SeedPrecondition, run |-> RunsSoFar + 1,
                     counts |-> NoCounts]
               ELSE [last EXCEPT !.sqlstates = Append(@, sqlstate')]
    /\ UNCHANGED <<response, stream>>

\* DELETE FROM eval_results WHERE task_id IN (<seed tasks>)
SeedDeleteEvals ==
    /\ SeedAt(0)
    /\ RunsSoFar < MaxRuns
    /\ eval_results' = DeleteWhereTaskIn(eval_results, SeedMarkedIds(research_tasks))
    /\ sqlstate' = Ok
    /\ cascaded' = 0
    /\ UNCHANGED <<research_tasks, research_findings, inferences, now>>
    /\ SeedLog(0)

\* DELETE FROM inferences WHERE task_id IN (<seed tasks>)
SeedDeleteInferences ==
    /\ SeedAt(1)
    /\ inferences' = DeleteWhereTaskIn(inferences, SeedMarkedIds(research_tasks))
    /\ sqlstate' = Ok
    /\ cascaded' = 0
    /\ UNCHANGED <<research_tasks, research_findings, eval_results, now>>
    /\ SeedLog(1)

\* DELETE FROM research_findings WHERE task_id IN (<seed tasks>)
SeedDeleteFindings ==
    /\ SeedAt(2)
    /\ research_findings' =
           DeleteWhereTaskIn(research_findings, SeedMarkedIds(research_tasks))
    /\ sqlstate' = Ok
    /\ cascaded' = 0
    /\ UNCHANGED <<research_tasks, inferences, eval_results, now>>
    /\ SeedLog(2)

\* DELETE FROM research_tasks WHERE metadata->>'seed' = 'true'
SeedDeleteTasks ==
    /\ SeedAt(3)
    /\ DeleteTasks(SeedMarkedIds(research_tasks))
    /\ SeedLog(3)

\* The four task INSERTs.
SeedInsertCompleted ==
    SeedAt(4) /\ InsertTask(SeedCompletedTask(now), 0) /\ SeedLog(4)

SeedInsertPending ==
    SeedAt(5) /\ InsertTask(SeedPendingTask(now), 0) /\ SeedLog(5)

SeedInsertRunning ==
    SeedAt(6) /\ InsertTask(SeedRunningTask(now), 0) /\ SeedLog(6)

SeedInsertFailed ==
    SeedAt(7) /\ InsertTask(SeedFailedTask(now), 0) /\ SeedLog(7)

\* The table after a two-row INSERT: both rows are stored, or, when either
\* breaks a constraint, none.
StoredBoth(tbl, r1, r2, st1, st2) ==
    IF st1 = Ok /\ st2 = Ok THEN tbl \cup {r1, r2} ELSE tbl

\* The SQLSTATE of a two-row INSERT.
StateOfBoth(st1, st2) == IF st1 # Ok THEN st1 ELSE st2

\* INSERT INTO research_findings ... VALUES (...), (...)
SeedInsertFindings ==
    /\ SeedAt(8)
    /\ \E u \in FreshPairs(research_findings) :
           LET ra == InsertedRow(SeedFindings[1], research_findings_default(u[1], now))
               rb == InsertedRow(SeedFindings[2], research_findings_default(u[2], now))
               sa == FindingRowStateIn(research_tasks, research_findings, ra)
               sb == FindingRowStateIn(research_tasks, research_findings \cup {ra}, rb)
           IN /\ research_findings' = StoredBoth(research_findings, ra, rb, sa, sb)
              /\ sqlstate' = StateOfBoth(sa, sb)
    /\ cascaded' = 0
    /\ UNCHANGED <<research_tasks, inferences, eval_results, now>>
    /\ SeedLog(8)

\* INSERT INTO inferences ... VALUES (...), (...)
SeedInsertInferences ==
    /\ SeedAt(9)
    /\ \E u \in FreshPairs(inferences) :
           LET ra == InsertedRow(SeedInferences[1], inferences_default(u[1], now))
               rb == InsertedRow(SeedInferences[2], inferences_default(u[2], now))
               sa == InferenceRowStateIn(research_tasks, inferences, ra)
               sb == InferenceRowStateIn(research_tasks, inferences \cup {ra}, rb)
           IN /\ inferences' = StoredBoth(inferences, ra, rb, sa, sb)
              /\ sqlstate' = StateOfBoth(sa, sb)
    /\ cascaded' = 0
    /\ UNCHANGED <<research_tasks, research_findings, eval_results, now>>
    /\ SeedLog(9)

\* INSERT INTO eval_results ... VALUES (...), (...)
SeedInsertEvals ==
    /\ SeedAt(10)
    /\ \E u \in FreshPairs(eval_results) :
           LET ra == InsertedRow(SeedEvals[1], eval_results_default(u[1], now))
               rb == InsertedRow(SeedEvals[2], eval_results_default(u[2], now))
               sa == EvalRowStateIn(research_tasks, eval_results, ra)
               sb == EvalRowStateIn(research_tasks, eval_results \cup {ra}, rb)
           IN /\ eval_results' = StoredBoth(eval_results, ra, rb, sa, sb)
              /\ sqlstate' = StateOfBoth(sa, sb)
    /\ cascaded' = 0
    /\ UNCHANGED <<research_tasks, research_findings, inferences, now>>
    /\ SeedLog(10)

\* SELECT ... COUNT(*) ...: the seed tasks and the dependent rows attached
\* to them.
SeedVerify ==
    LET marked == SeedMarkedIds(research_tasks) IN
    /\ SeedAt(11)
    /\ sqlstate' = Ok
    /\ cascaded' = 0
    /\ last' = [last EXCEPT
                   !.sqlstates = Append(@, Ok),
                   !.counts =
                       [research_tasks |-> Cardinality(SeedMarked(research_tasks)),
                        research_findings |->
                            Cardinality(research_findings
                                            \ DeleteWhereTaskIn(research_findings, marked)),
                        inferences |->
                            Cardinality(inferences
                                            \ DeleteWhereTaskIn(inferences, marked)),
                        eval_results |->
                            Cardinality(eval_results
                                            \ DeleteWhereTaskIn(eval_results, marked))]]
    /\ UNCHANGED <<research_tasks, research_findings, inferences, eval_results,
                   now, response, stream>>

\* The script's session executes its next statement.
RunSeed ==
    \/ SeedDeleteEvals
    \/ SeedDeleteInferences
    \/ SeedDeleteFindings
    \/ SeedDeleteTasks
    \/ SeedInsertCompleted
    \/ SeedInsertPending
    \/ SeedInsertRunning
    \/ SeedInsertFailed
    \/ SeedInsertFindings
    \/ SeedInsertInferences
    \/ SeedInsertEvals
    \/ SeedVerify

\* The server clock advances.
Tick ==
    /\ now < MaxClock
    /\ now' = now + 1
    /\ UNCHANGED <<research_tasks, research_findings, inferences, eval_results,
                   sqlstate, cascaded, last, response, stream>>

\* The databases the script is started on: the empty one, and those that
\* hold a task that is not a seed task (with or without a finding), a task
\* marked as seed under an id the script does not use (with or without an
\* inference), or a task that has a seed task id and is not marked as seed.
\* Each row is the row an INSERT stores.
OtherTask ==
    InsertedRow([id |-> Some(5)] @@ TaskStmt, research_tasks_default(5, 0))

MarkedTask ==
    InsertedRow([id |-> Some(6), metadata |-> Some(SeedMetadata)] @@ TaskStmt,
                research_tasks_default(6, 0))

UnmarkedTask ==
    InsertedRow([id |-> Some(1)] @@ TaskStmt, research_tasks_default(1, 0))

OtherFinding ==
    InsertedRow(FindingStmt(5), research_findings_default(1, 0))

MarkedInference ==
    InsertedRow(InferenceStmt(6, 1), inferences_default(1, 0))

SeedStartStates ==
    {start \in [research_tasks : SUBSET {OtherTask, MarkedTask, UnmarkedTask},
                research_findings : SUBSET {OtherFinding},
                inferences : SUBSET {MarkedInference}] :
         /\ OtherFinding \in start.research_findings
                => OtherTask \in start.research_tasks
         /\ MarkedInference \in start.inferences
                => MarkedTask \in start.research_tasks}

InitSeed ==
    /\ \E start \in SeedStartStates :
           /\ research_tasks = start.research_tasks
           /\ research_findings = start.research_findings
           /\ inferences = start.inferences
    /\ eval_results = {}
    /\ sqlstate = Ok
    /\ cascaded = 0
    /\ now = 0
    /\ last = None
    /\ response = None
    /\ stream = << >>

\* The script runs, statement by statement, while the clock advances.
NextSeed ==
    \/ RunSeed
    \/ Tick

SpecSeed == InitSeed /\ [][NextSeed]_vars

\* C7: every result stored in research_tasks.result carries a
\* confidence_score, and it lies within [0.0, 1.0].
C7_ResultHasConfidence ==
    \A r \in research_tasks :
        ~IsNull(r.result) =>
            /\ ~IsNull(Val(r.result).confidence_score)
            /\ Val(Val(r.result).confidence_score) >= 0
            /\ Val(Val(r.result).confidence_score) <= 100

\* Rows of a dependent table attached to one of the tasks ids.
AttachedTo(tbl, ids) == {r \in tbl : Val(r.task_id) \in ids}

\* A run of the script has executed its last statement.
SeedDone ==
    IF last.kind = "seed" THEN Len(last.sqlstates) = SeedStatements ELSE FALSE

\* What a row holds besides the values the server generates anew on each
\* run: the NOW()-relative timestamps, and the id of a dependent row.
TaskContent(r) ==
    [c \in DOMAIN r \ {"created_at", "started_at", "completed_at"} |-> r[c]]

ChildContent(r) == [c \in DOMAIN r \ {"id", "created_at"} |-> r[c]]

\* The seeded content at the end of a run: exactly the four seed tasks, no
\* statement of the run having failed (no INSERT met a row with its id),
\* and two findings, two inferences and two eval results attached to them,
\* as the script's verification query reports; the rows hold what the
\* script's VALUES lists give, whatever the database held before.
SeedContent ==
    /\ SeedRowIds(research_tasks) = SeedTaskIds
    /\ Cardinality(SeedRows(research_tasks)) = 4
    /\ \A i \in DOMAIN last.sqlstates : last.sqlstates[i] = Ok
    /\ Cardinality(AttachedTo(research_findings, SeedTaskIds)) = 2
    /\ Cardinality(AttachedTo(inferences, SeedTaskIds)) = 2
    /\ Cardinality(AttachedTo(eval_results, SeedTaskIds)) = 2
    /\ last.counts = [research_tasks |-> 4, research_findings |-> 2,
                      inferences |-> 2, eval_results |-> 2]
    /\ {TaskContent(r) : r \in SeedRows(research_tasks)}
           = {TaskContent(InsertedRow(t, research_tasks_default(0, 0))) :
                  t \in {SeedCompletedTask(0), SeedPendingTask(0),
                         SeedRunningTask(0), SeedFailedTask(0)}}
    /\ {ChildContent(r) : r \in AttachedTo(research_findings, SeedTaskIds)}
           = {ChildContent(InsertedRow(SeedFindings[i],
                                       research_findings_default(0, 0))) :
                  i \in DOMAIN SeedFindings}
    /\ {ChildContent(r) : r \in AttachedTo(inferences, SeedTaskIds)}
           = {ChildContent(InsertedRow(SeedInferences[i],
                                       inferences_default(0, 0))) :
                  i \in DOMAIN SeedInferences}
    /\ {ChildContent(r) : r \in AttachedTo(eval_results, SeedTaskIds)}
           = {ChildContent(InsertedRow(SeedEvals[i],
                                       eval_results_default(0, 0))) :
                  i \in DOMAIN SeedEvals}

\* A statement leaves the rows that do not belong to seed tasks as they
\* were.
NonSeedUnchanged ==
    LET seed == SeedRowIds(research_tasks) \cup SeedTaskIds IN
    /\ {r \in research_tasks' : Val(r.id) \notin seed}
           = {r \in research_tasks : Val(r.id) \notin seed}
    /\ research_findings' \ AttachedTo(research_findings', seed)
           = research_findings \ AttachedTo(research_findings, seed)
    /\ inferences' \ AttachedTo(inferences', seed)
           = inferences \ AttachedTo(inferences, seed)
    /\ eval_results' \ AttachedTo(eval_results', seed)
           = eval_results \ AttachedTo(eval_results, seed)

\* C12: the seed script is idempotent. Of a run that starts where every
\* row with a seed task id carries metadata seed = 'true', be it the first
\* run or a later one, every statement succeeds (no primary-key conflict)
\* and leaves the rows that do not belong to seed tasks unchanged, and the
\* run ends with the same seeded content: exactly the 4 seed tasks, with 2
\* findings, 2 inferences and 2 eval results attached to them, and where
\* the next run may start.
C12_SeedIdempotent ==
    [][(last' # last /\ last'.kind = "seed" /\ last'.pre)
           => /\ NonSeedUnchanged
              /\ sqlstate' = Ok
              /\ Len(last'.sqlstates) = SeedStatements
                     => (SeedContent' /\ SeedPrecondition')]_vars

\* The script has run a second time, on a database that held a task that
\* is not a seed task and its finding before the first run and holds them
\* still; in this run the clock advanced between the first INSERT and the
\* second.
C12_Witness ==
    /\ SeedDone
    /\ last.pre
    /\ last.run = 2
    /\ SeedContent
    /\ \E r1, r2 \in SeedRows(research_tasks) :
           /\ r1.id = Some(1)
           /\ r2.id = Some(2)
           /\ Val(r1.created_at) + 7200 < Val(r2.created_at) + 1800
    /\ OtherTask \in research_tasks
    /\ OtherFinding \in research_findings

\* The optional fields of a research_tasks row agree with its status.
FieldsAgree(r) ==
    LET status == Val(r.status) IN
    /\ ~IsNull(r.result) => status = "completed"
    /\ ~IsNull(r.error) => status = "failed"
    /\ IsNull(r.started_at) <=> status = "pending"
    /\ ~IsNull(r.completed_at) <=> status \in {"completed", "failed"}
    /\ ~IsNull(r.started_at) => Val(r.created_at) <= Val(r.started_at)
    /\ (~IsNull(r.started_at) /\ ~IsNull(r.completed_at))
           => Val(r.started_at) <= Val(r.completed_at)

\* C13: in every state the seed script produces, between its statements
\* as well as after its last one, every task's optional fields agree with
\* its status: result is set only when completed, error only when failed,
\* started_at is null exactly when pending, completed_at is set exactly
\* when completed or failed, and created_at <= started_at <= completed_at.
C13_FieldsAgreeWithStatus ==
    \A r \in research_tasks : FieldsAgree(r)

\* The script has written its four tasks, one in each status.
C13_Witness ==
    /\ SeedDone
    /\ {Val(r.status) : r \in SeedRows(research_tasks)} = TaskStatus
    /\ \E r \in SeedRows(research_tasks) :
           Val(r.status) = "running" /\ ~IsNull(r.started_at)
                                      /\ IsNull(r.completed_at)
    /\ \E r \in SeedRows(research_tasks) :
           Val(r.status) = "failed" /\ ~IsNull(r.error)
                                     /\ ~IsNull(r.completed_at)

====
